---- MODULE Spec2Model ----
(***************************************************************************)
(* State-machine model of epollserver/src/main.rs: a single-threaded chat  *)
(* relay.  The epoll loop accepts clients, reads bytes into each client's  *)
(* fixed buffer, finds the last newline of the valid region and writes     *)
(* buf[0..needle] once to every other client, then shifts the left-over    *)
(* bytes to the front of the buffer.                                       *)
(*                                                                         *)
(* Rust indices are 0-based, TLA+ sequences 1-based: buf[i] of the source  *)
(* is buf[i+1] here; off and needle keep their source values (counts).     *)
(* One step of the model is one epoll_wait return value handled: one ready *)
(* event handled by handle_event, or a failed wait.  A batch of k events   *)
(* is k successive steps (epoll_wait itself changes no program state).     *)
(***************************************************************************)
EXTENDS Integers, Sequences, FiniteSets, TLC

\* ---- bounds of the model ----
MaxClients == 3        \* client descriptors ListenFd+1 .. ListenFd+MaxClients
BUFFER_SIZE == 2       \* main.rs:10 uses 256; scaled down for checking
MaxTotal == 2          \* events are followed while TOTAL_BYTES_SENT < MaxTotal
MaxRead == 3           \* bytes one peer sends in all, where its input is logged

\* ---- program constants ----
ListenFd == 3          \* listener.as_raw_fd()
NL == 10               \* b'\n'

ClientFds == (ListenFd + 1)..(ListenFd + MaxClients)

\* Three environments, each saying which bytes the peer of a descriptor
\* sends.  Relay: the peer of the highest descriptor sends newlines (every
\* read of it is broadcast), the peer of the lowest one sends 'a' only (its
\* bytes stay in its buffer), the peers between them only connect, receive,
\* close and fail.  Framing: one sending peer, newlines, 'a' and 'b', so
\* that the order of buffered bytes shows.
RelaySends(cfd) ==
    IF cfd = ListenFd + MaxClients THEN {NL}
    ELSE IF cfd = ListenFd + 1 THEN {97}
    ELSE {}
FramingSends(cfd) == IF cfd = ListenFd + 1 THEN {NL, 97, 98} ELSE {}
\* History: one sending peer, newlines and 'a', at most MaxRead bytes per
\* connection; its input and its broadcasts are logged.
HistorySends(cfd) == IF cfd = ListenFd + 1 THEN {NL, 97} ELSE {}
\* The descriptors whose peers may take a write short or fail it; the peers
\* of the other descriptors take every write whole.
RelaySlow == {ListenFd + 1, ListenFd + 2}
FramingSlow == {}
ErrKinds == {"WouldBlock", "ConnectionReset", "InvalidInput"}

VARIABLES
    clients,   \* HashMap<i32, RefCell<ClientState>> of await_clients
    interest,  \* descriptors registered with the epoll instance epfd
    total,     \* TOTAL_BYTES_SENT
    pc,        \* "loop" while await_clients loops, "exited" after its break
    unsent,    \* per client: bytes read from it that no write has carried yet
    ev,        \* what the last step did (its inputs and observable effects)
    log        \* per descriptor: rd, the bytes read from its connection; bc,
               \* the payloads it broadcast; lost, the bytes the connection
               \* before it held unsent when it was removed

vars == <<clients, interest, total, pc, unsent, ev, log>>

Min(a, b) == IF a < b THEN a ELSE b

SeqsUpTo(S, n) == UNION {[1..k -> S] : k \in 1..n}

\* ---- the transport ----
\* What a read finds on the socket: pending bytes d of an open peer, the end
\* of the stream, or an error.
DataIn(d) == [tag |-> "data", d |-> d, kind |-> "none"]
EofIn == [tag |-> "eof", d |-> <<>>, kind |-> "none"]
ErrIn(k) == [tag |-> "err", d |-> <<>>, kind |-> k]

\* The reads a socket can offer a buffer slice of cap bytes.  Pending data
\* longer than the slice is delivered by later reads, so d is at most cap
\* bytes; with an empty slice one pending byte stands for "data is waiting".
ReadInputs(cap, bytes) ==
    {DataIn(d) : d \in SeqsUpTo(bytes, IF cap = 0 THEN 1 ELSE cap)}
        \cup {EofIn} \cup {ErrIn(k) : k \in ErrKinds}

\* stream.read(&mut buf[off..BUFFER_SIZE]): copies at most cap bytes.
stream_read(rin, cap) ==
    IF rin.tag = "err" THEN [ok |-> FALSE, n |-> 0, kind |-> rin.kind]
    ELSE [ok |-> TRUE, n |-> Min(Len(rin.d), cap), kind |-> "none"]

\* How a single write of the message ends: all of it taken, a short write
\* of one byte, or Err(_): would-block, broken pipe, closed transport; the
\* caller does not look at the kind.
WriteOutcomes == {"full", "short", "failed"}

\* client.borrow_mut().stream.write(message) under outcome o.
stream_write(o, message) ==
    IF o = "failed" THEN [ok |-> FALSE, n |-> 0]
    ELSE [ok |-> TRUE, n |-> IF o = "short" THEN 1 ELSE Len(message)]

\* ---- ClientState ----
\* Variant: the new state starts with one byte in its buffer.
with_stream_dirty(stream) ==
    [off |-> 1, needle |-> 0, buf |-> [i \in 1..BUFFER_SIZE |-> 97], stream |-> stream]

with_stream(stream) ==
    [off |-> 0, needle |-> 0, buf |-> [i \in 1..BUFFER_SIZE |-> 0], stream |-> stream]

\* ---- check_message ----
\* for i in (0..off+bytes).rev(): the highest index holding a newline, as
\* needle value i+1; 0 when the loop ends without a hit.
\* Variant: the first newline of the region instead of the last.
fwd_scan(buf, n) ==
    IF \E i \in 1..n : buf[i] = NL
    THEN CHOOSE i \in 1..n : buf[i] = NL /\ \A j \in 1..(i - 1) : buf[j] # NL
    ELSE 0

\* Variant: the scan leaves out the last byte of the region.
rev_scan_short(buf, n) ==
    IF \E i \in 1..(n - 1) : buf[i] = NL
    THEN CHOOSE i \in 1..(n - 1) : buf[i] = NL /\ \A j \in (i + 1)..(n - 1) : buf[j] # NL
    ELSE 0

\* Variant: the scan starts at the end of the buffer, not of the region.
rev_scan_whole(buf, n) ==
    IF \E i \in 1..BUFFER_SIZE : buf[i] = NL
    THEN CHOOSE i \in 1..BUFFER_SIZE :
            buf[i] = NL /\ \A j \in (i + 1)..BUFFER_SIZE : buf[j] # NL
    ELSE 0

RECURSIVE rev_scan(_, _)
rev_scan(buf, n) ==
    IF n = 0 THEN 0
    ELSE IF buf[n] = NL THEN n
    ELSE rev_scan(buf, n - 1)

check_message(client, bytes) ==
    LET hit == rev_scan(client.buf, client.off + bytes)
        needle == IF hit > 0 THEN hit ELSE client.needle
    IN  [client |-> [client EXCEPT !.needle = needle, !.off = client.off + bytes],
         ret |-> needle > 0]

\* ---- broadcast_message ----
\* Variant: no client is skipped.
skip_nobody(cfd, ofd) == FALSE

\* if *cfd != ofd { write }
skip_orator(cfd, ofd) == cfd = ofd

\* Variant: a failed write counts one byte.
write_bytes_attempted(res) == IF res.ok THEN res.n ELSE 1

\* Ok(n) => bytes += n, Err(_) => {}
write_bytes(res) == IF res.ok THEN res.n ELSE 0

\* Variant: the loop ends at the first failed write.
RECURSIVE write_loop_until_error(_, _, _, _, _)
write_loop_until_error(iter, ofd, message, w, acc) ==
    IF iter = <<>> THEN acc
    ELSE LET cfd == Head(iter)
             rest == Tail(iter)
         IN  IF cfd = ofd
             THEN write_loop_until_error(rest, ofd, message, w, acc)
             ELSE LET res == stream_write(w[cfd], message)
                      now == [bytes |-> acc.bytes + (IF res.ok THEN res.n ELSE 0),
                              wr |-> Append(acc.wr, [fd |-> cfd, res |-> res])]
                  IN  IF res.ok
                      THEN write_loop_until_error(rest, ofd, message, w, now)
                      ELSE now

\* The for loop over clients.iter().  iter is the sequence of the keys in
\* the order the HashMap yields them, which is any order (RandomState).
RECURSIVE write_loop(_, _, _, _, _)
write_loop(iter, ofd, message, w, acc) ==
    IF iter = <<>> THEN acc
    ELSE LET cfd == Head(iter)
             rest == Tail(iter)
         IN  IF skip_orator(cfd, ofd)
             THEN write_loop(rest, ofd, message, w, acc)
             ELSE LET res == stream_write(w[cfd], message)
                  IN  write_loop(rest, ofd, message, w,
                          [bytes |-> acc.bytes + write_bytes(res),
                           wr |-> Append(acc.wr, [fd |-> cfd, res |-> res])])

\* for i in 0..off { buf[i] = buf[needle]; needle += 1 }
RECURSIVE shift_loop(_, _, _, _)
shift_loop(buf, i, needle, off) ==
    IF i >= off THEN buf
    ELSE shift_loop([buf EXCEPT ![i + 1] = buf[needle + 1]], i + 1, needle + 1, off)

\* Variant: off and needle are set, the bytes are not moved.
compact_in_place(orator) ==
    IF orator.needle < orator.off
    THEN [orator EXCEPT !.off = orator.off - orator.needle, !.needle = 0]
    ELSE [orator EXCEPT !.off = 0, !.needle = 0]

\* Variant: the bytes sent stay in the valid region.
compact_keep_all(orator) == [orator EXCEPT !.needle = 0]

\* Variant: needle is not set back to 0 after the shift.
compact_keep_needle(orator) ==
    IF orator.needle < orator.off
    THEN LET off == orator.off - orator.needle
         IN  [orator EXCEPT !.off = off,
                            !.buf = shift_loop(orator.buf, 0, orator.needle, off)]
    ELSE [orator EXCEPT !.off = 0]

compact(orator) ==
    IF orator.needle < orator.off
    THEN LET off == orator.off - orator.needle
         IN  [orator EXCEPT !.off = off,
                            !.buf = shift_loop(orator.buf, 0, orator.needle, off),
                            !.needle = 0]
    ELSE [orator EXCEPT !.off = 0, !.needle = 0]

broadcast_message(orator, iter, w) ==
    LET ofd == orator.stream
        message == SubSeq(orator.buf, 1, orator.needle)
        done == write_loop(iter, ofd, message, w, [bytes |-> 0, wr |-> <<>>])
    IN  [orator |-> compact(orator), bytes |-> done.bytes,
         wr |-> done.wr, message |-> message]

\* ---- handle_client ----
Returned(cl, err, n, b) ==
    [clients |-> cl, err |-> err, n |-> n, sent |-> b.bytes, wr |-> b.wr, msgs |-> b.msgs]

NoBroadcast == [bytes |-> 0, wr |-> <<>>, msgs |-> <<>>]

\* Variant: the bytes are read to the front of the buffer.
copy_in_front(buf, off, d, n) ==
    [i \in 1..BUFFER_SIZE |-> IF i <= n THEN d[i] ELSE buf[i]]

\* buf[off..off+n] = the first n bytes of d
copy_in(buf, off, d, n) ==
    [i \in 1..BUFFER_SIZE |-> IF off < i /\ i <= off + n THEN d[i - off] ELSE buf[i]]

handle_client(cfd, cl, rin, w, iter) ==
    IF cfd \notin DOMAIN cl THEN Returned(cl, "InvalidInput", 0, NoBroadcast)
    ELSE
      LET client == cl[cfd]
          off == client.off
          rd == stream_read(rin, BUFFER_SIZE - off)
      IN  IF ~rd.ok
          THEN Returned(cl, IF rd.kind = "WouldBlock" THEN "none" ELSE rd.kind,
                        0, NoBroadcast)
          ELSE IF rd.n = 0
          THEN Returned(cl, "ConnectionAborted", 0, NoBroadcast)
          ELSE
            LET read == [client EXCEPT !.buf = copy_in(@, off, rin.d, rd.n)]
                chk == check_message(read, rd.n)
            IN  IF chk.ret
                THEN LET b == broadcast_message(chk.client, iter, w)
                     IN  Returned([cl EXCEPT ![cfd] = b.orator], "none", rd.n,
                                  [bytes |-> b.bytes, wr |-> b.wr,
                                   msgs |-> <<b.message>>])
                ELSE Returned([cl EXCEPT ![cfd] = chk.client], "none", rd.n,
                              NoBroadcast)

\* TOTAL_BYTES_SENT.fetch_add(sent): wraps at the width of usize, which the
\* guard total < MaxTotal of the steps keeps out of reach.
fetch_add(counter, sent) == counter + sent

\* ---- remove_client ----
Without(f, k) == [x \in DOMAIN f \ {k} |-> f[x]]
With(f, k, v) == [x \in DOMAIN f \cup {k} |-> IF x = k THEN v ELSE f[x]]

\* Variant: the whole registry is cleared.
remove_client_all(cfd, cl, reg) ==
    [clients |-> <<>>, interest |-> {ListenFd}]

\* Variant: the entry is removed, the epoll registration is kept.
remove_client_keep_interest(cfd, cl, reg) ==
    [clients |-> Without(cl, cfd), interest |-> reg]

\* epoll_ctl(EPOLL_CTL_DEL, cfd); clients.remove(&cfd)
remove_client(cfd, cl, reg) ==
    [clients |-> Without(cl, cfd), interest |-> reg \ {cfd}]

\* ---- accept_client ----
AcceptInputs == {"ok", "accept_err", "nonblocking_err", "epoll_ctl_err"}

\* The descriptor accept() returns: the lowest one not in use.
FreeFds(cl) == ClientFds \ DOMAIN cl
next_fd(cl) == CHOOSE x \in FreeFds(cl) : \A y \in FreeFds(cl) : x <= y

\* Variant: a stream whose epoll_ctl failed is returned all the same.
accept_client_unregistered(ain, cl, reg) ==
    IF ain \in {"ok", "epoll_ctl_err"} /\ FreeFds(cl) # {}
    THEN [ok |-> TRUE, stream |-> next_fd(cl), interest |-> reg]
    ELSE [ok |-> FALSE, stream |-> 0, interest |-> reg]

\* On an error after accept() the stream is dropped, which closes it.
accept_client(ain, cl, reg) ==
    IF ain = "ok"
    THEN [ok |-> TRUE, stream |-> next_fd(cl), interest |-> reg \cup {next_fd(cl)}]
    ELSE [ok |-> FALSE, stream |-> 0, interest |-> reg]

\* ---- handle_event ----
\* Variant: the peers whose write failed are removed too.
removed_by_or_failed(cfd, h) ==
    (IF h.err # "none" /\ h.err # "InvalidInput" THEN {cfd} ELSE {})
        \cup {h.wr[i].fd : i \in {j \in 1..Len(h.wr) : ~h.wr[j].res.ok}}

\* Variant: every error of handle_client leads to remove_client.
removed_by_any_error(cfd, h) == IF h.err # "none" THEN {cfd} ELSE {}

\* The descriptors handle_event removes after handle_client returned h:
\* if let Err(e) = .. { if e.kind() != ErrorKind::InvalidInput { remove_client(cfd) } }
removed_by(cfd, h) ==
    IF h.err # "none" /\ h.err # "InvalidInput" THEN {cfd} ELSE {}

RECURSIVE remove_each(_, _, _)
remove_each(gone, cl, reg) ==
    IF gone = {} THEN [clients |-> cl, interest |-> reg]
    ELSE LET cfd == CHOOSE x \in gone : TRUE
             r == remove_client(cfd, cl, reg)
         IN  remove_each(gone \ {cfd}, r.clients, r.interest)

Quiet == [err |-> "none", n |-> 0, sent |-> 0, wr |-> <<>>, msgs |-> <<>>]

handle_event(id, cl, reg, ain, rin, w, iter) ==
    IF id = ListenFd
    THEN LET a == accept_client(ain, cl, reg)
         IN  IF a.ok
             THEN [clients |-> With(cl, a.stream, with_stream(a.stream)),
                   interest |-> a.interest, h |-> Quiet, gone |-> {}]
             ELSE [clients |-> cl, interest |-> a.interest,
                   h |-> [Quiet EXCEPT !.err = ain], gone |-> {}]
    ELSE LET h == handle_client(id, cl, rin, w, iter)
             gone == removed_by(id, h)
             r == remove_each(gone, h.clients, reg)
         IN  [clients |-> r.clients, interest |-> r.interest,
              h |-> [err |-> h.err, n |-> h.n, sent |-> h.sent, wr |-> h.wr,
                     msgs |-> h.msgs],
              gone |-> gone]

\* ---- what a step records ----
Event(op, id, rin, e) ==
    [op |-> op, id |-> id, rin |-> rin, err |-> e.h.err, n |-> e.h.n,
     msgs |-> e.h.msgs, wr |-> e.h.wr, sent |-> e.h.sent, removed |-> e.gone]

NoEvent == [h |-> Quiet, gone |-> {}]

\* Sequences over the byte values: position of the last newline of u (0 when
\* it has none), the bytes after it, the bytes up to it.
LastNL(u) ==
    IF \E i \in 1..Len(u) : u[i] = NL
    THEN CHOOSE i \in 1..Len(u) : u[i] = NL /\ \A j \in (i + 1)..Len(u) : u[j] # NL
    ELSE 0
AfterLastNL(u) == SubSeq(u, LastNL(u) + 1, Len(u))
UpToLastNL(u) == SubSeq(u, 1, LastNL(u))

NoLog == [rd |-> <<>>, bc |-> <<>>, lost |-> <<>>]

Init ==
    /\ clients = <<>>
    /\ interest = {ListenFd}
    /\ total = 0
    /\ pc = "loop"
    /\ unsent = <<>>
    /\ ev = Event("start", ListenFd, EofIn, NoEvent)
    /\ log = [c \in ClientFds |-> NoLog]

\* await_clients is inside its loop; the model follows it until
\* TOTAL_BYTES_SENT reaches MaxTotal.
Running == pc = "loop" /\ total < MaxTotal

AllFull(cl) == [c \in DOMAIN cl |-> "full"]

\* The orders clients.iter() can yield the keys in: every order.
IterOrders(keys) ==
    {p \in [1..Cardinality(keys) -> keys] :
        \A i \in DOMAIN p : \A j \in DOMAIN p : p[i] = p[j] => i = j}
\* The orders with the key cfd first.  The loop skips the sender wherever it
\* comes, so a step draws the order of the peers and puts the sender first.
IterOrdersFrom(cfd, keys) == {<<cfd>> \o p : p \in IterOrders(keys \ {cfd})}
\* One of them, for the steps that do not iterate.
RECURSIVE Ascending(_)
Ascending(keys) ==
    IF keys = {} THEN <<>>
    ELSE LET k == CHOOSE x \in keys : \A y \in keys : x <= y
         IN  <<k>> \o Ascending(keys \ {k})

\* ---- handle_event, event.u64 == listener fd ----
AcceptEvent ==
    /\ Running
    /\ \E ain \in AcceptInputs :
         /\ ain = "ok" => FreeFds(clients) # {}
         /\ \E e \in {handle_event(ListenFd, clients, interest, ain, EofIn,
                                   AllFull(clients), Ascending(DOMAIN clients))} :
              /\ clients' = e.clients
              /\ interest' = e.interest
              /\ unsent' = [c \in DOMAIN e.clients |->
                              IF c \in DOMAIN unsent THEN unsent[c] ELSE <<>>]
              /\ ev' = Event(IF ain = "ok" THEN "accept" ELSE "accept_failed",
                             ListenFd, EofIn, e)
    /\ UNCHANGED <<total, pc, log>>

\* The read of rin by cfd leads to a broadcast.
Broadcasts(cfd, cl, rin) ==
    handle_client(cfd, cl, rin, AllFull(cl), Ascending(DOMAIN cl)).msgs # <<>>

\* The write outcomes a step can meet: one per registered peer when the read
\* leads to a broadcast, none otherwise.  slow: see RelaySlow.
WriteInputs(cfd, cl, bc, slow) ==
    IF ~bc THEN {AllFull(cl)}
    ELSE {[c \in DOMAIN cl |-> IF c \in DOMAIN f THEN f[c] ELSE "full"] :
            f \in [(DOMAIN cl \ {cfd}) \cap slow -> WriteOutcomes]}

\* The iteration orders a step can meet: any when the read leads to a
\* broadcast, none otherwise.
IterInputs(cfd, cl, bc) ==
    IF ~bc THEN {Ascending(DOMAIN cl)} ELSE IterOrdersFrom(cfd, DOMAIN cl)

\* ---- handle_event, any other event.u64, the client is in the map ----
\* bytes: the byte values the peer of cfd sends; quota: the most bytes it
\* has pending; slow: the descriptors whose writes may be short or fail.
ClientRead(cfd, bytes, quota, slow) ==
    /\ Running
    /\ cfd \in DOMAIN clients
    /\ \E rin \in {r \in ReadInputs(BUFFER_SIZE - clients[cfd].off, bytes) :
                       Len(r.d) <= quota} :
         \E bc \in {Broadcasts(cfd, clients, rin)} :
         \E w \in WriteInputs(cfd, clients, bc, slow) :
         \E iter \in IterInputs(cfd, clients, bc) :
           \E e \in {handle_event(cfd, clients, interest, "ok", rin, w, iter)} :
              /\ clients' = e.clients
              /\ interest' = e.interest
              /\ total' = fetch_add(total, e.h.sent)
              /\ unsent' = [c \in DOMAIN e.clients |->
                              IF c = cfd
                              THEN AfterLastNL(unsent[c] \o SubSeq(rin.d, 1, e.h.n))
                              ELSE unsent[c]]
              /\ ev' = Event("client", cfd, rin, e)
    /\ pc' = pc

ClientEvent(cfd, bytes, slow) ==
    /\ ClientRead(cfd, bytes, BUFFER_SIZE, slow)
    /\ UNCHANGED log

\* The same step, with the input and the broadcasts of the connection logged.
\* The log of a descriptor starts again when its connection is removed.
ClientEventLogged(cfd, bytes, slow) ==
    /\ ClientRead(cfd, bytes, MaxRead - Len(log[cfd].rd), slow)
    /\ log' = [log EXCEPT ![cfd] =
                 IF cfd \in DOMAIN clients'
                 THEN [rd |-> @.rd \o SubSeq(ev'.rin.d, 1, ev'.n),
                       bc |-> @.bc \o (IF ev'.msgs = <<>> THEN <<>> ELSE ev'.msgs[1]),
                       lost |-> @.lost]
                 ELSE [rd |-> <<>>, bc |-> <<>>, lost |-> unsent[cfd]]]

\* ---- handle_event, an event.u64 that is no key of the map ----
StaleEvent(cfd) ==
    /\ Running
    /\ cfd \in ClientFds \ DOMAIN clients
    /\ \E e \in {handle_event(cfd, clients, interest, "ok", EofIn, AllFull(clients),
                              Ascending(DOMAIN clients))} :
         /\ clients' = e.clients
         /\ interest' = e.interest
         /\ unsent' = [c \in DOMAIN e.clients |-> unsent[c]]
         /\ ev' = Event("stale", cfd, EofIn, e)
    /\ UNCHANGED <<total, pc, log>>

\* ---- await_clients: epoll_wait returned < 0 ----
\* The kinds Error::last_os_error().kind() can have after a failed wait:
\* EINTR, or any other errno (EBADF, EINVAL, EFAULT: a kind of its own).
\* The eprintln! before it is taken to succeed, which leaves errno alone.
WaitKinds == {"Interrupted", "Uncategorized"}

\* Variant: every failed wait leaves the loop.
wait_error_break(kind) == "break"

\* match kind { ErrorKind::Interrupted => continue, _ => break }
wait_error(kind) == IF kind = "Interrupted" THEN "continue" ELSE "break"

WaitInterrupted ==
    /\ Running
    /\ \E kind \in WaitKinds :
         /\ wait_error(kind) = "continue"
         /\ ev' = Event("interrupted", ListenFd, EofIn, [NoEvent EXCEPT !.h.err = kind])
    /\ UNCHANGED <<clients, interest, total, pc, unsent, log>>

\* The break ends await_clients: clients and epserver are dropped, which
\* closes every client stream and the listener; a closed descriptor leaves
\* the epoll set (the epoll descriptor itself stays open).
drop_all(cl, reg) == [clients |-> <<>>, interest |-> {}]

WaitFailed ==
    /\ pc = "loop"
    /\ \E kind \in WaitKinds :
         /\ wait_error(kind) = "break"
         /\ ev' = Event("wait_failed", ListenFd, EofIn, [NoEvent EXCEPT !.h.err = kind])
    /\ \E d \in {drop_all(clients, interest)} :
         /\ clients' = d.clients
         /\ interest' = d.interest
    /\ unsent' = <<>>
    /\ log' = [c \in ClientFds |->
                 IF c \in DOMAIN clients
                 THEN [rd |-> <<>>, bc |-> <<>>, lost |-> unsent[c]]
                 ELSE log[c]]
    /\ pc' = "exited"
    /\ UNCHANGED total

Next ==
    \/ AcceptEvent
    \/ \E cfd \in ClientFds : ClientEvent(cfd, RelaySends(cfd), RelaySlow)
    \/ \E cfd \in ClientFds : StaleEvent(cfd)
    \/ WaitInterrupted
    \/ WaitFailed

Spec == Init /\ [][Next]_vars

NextFraming ==
    \/ AcceptEvent
    \/ \E cfd \in ClientFds : ClientEvent(cfd, FramingSends(cfd), FramingSlow)
    \/ \E cfd \in ClientFds : StaleEvent(cfd)
    \/ WaitInterrupted
    \/ WaitFailed

SpecFraming == Init /\ [][NextFraming]_vars

NextHistory ==
    \/ AcceptEvent
    \/ \E cfd \in ClientFds : ClientEventLogged(cfd, HistorySends(cfd), FramingSlow)
    \/ \E cfd \in ClientFds : StaleEvent(cfd)
    \/ WaitInterrupted
    \/ WaitFailed

SpecHistory == Init /\ [][NextHistory]_vars

(***************************************************************************)
(* Properties.                                                             *)
(***************************************************************************)
HasNL(u) == \E i \in 1..Len(u) : u[i] = NL

\* The newline-terminated lines of u, in order (a trailing part without a
\* newline is left out).
RECURSIVE SplitLines(_)
SplitLines(u) ==
    IF ~HasNL(u) THEN <<>>
    ELSE LET i == CHOOSE k \in 1..Len(u) : u[k] = NL /\ \A j \in 1..(k - 1) : u[j] # NL
         IN  <<SubSeq(u, 1, i)>> \o SplitLines(SubSeq(u, i + 1, Len(u)))

RECURSIVE Concat(_)
Concat(ss) == IF ss = <<>> THEN <<>> ELSE Head(ss) \o Concat(Tail(ss))

\* The bytes the last step copied from the socket into the buffer.
Copied(e) == SubSeq(e.rin.d, 1, e.n)
\* buf[0..off] of a client.
Valid(client) == SubSeq(client.buf, 1, client.off)
\* The last step was a read of at least one byte / a read that broadcast.
ReadStep(e) == e.op = "client" /\ e.n > 0
BroadcastStep(e) == e.op = "client" /\ e.msgs # <<>>
Failed(e) == {i \in 1..Len(e.wr) : ~e.wr[i].res.ok}

\* C1 as stated: every read broadcasts one message per line completed by it:
\* the messages of a read are the lines of (bytes held back so far, followed
\* by the bytes read), split at each newline, in order.
C1_OneBroadcastPerLine ==
    [][ReadStep(ev') =>
         ev'.msgs = SplitLines(unsent[ev'.id] \o Copied(ev'))]_vars

\* C1 amended: a read that completes at least one line makes exactly one
\* broadcast, whose payload is all the bytes held back so far followed by the
\* bytes read, up to the last newline (every completed line, in input order,
\* in one message); a read that completes no line makes none.  So the
\* concatenation of the broadcasts is the input up to its last newline.
C1_BroadcastsCarryInput ==
    [][ReadStep(ev') =>
         LET u == unsent[ev'.id] \o Copied(ev')
         IN  /\ Concat(ev'.msgs) = UpToLastNL(u)
             /\ Len(ev'.msgs) = IF HasNL(u) THEN 1 ELSE 0]_vars

\* A read of two complete lines was answered by one broadcast of both,
\* written to a peer.
C1_Witness ==
    /\ ReadStep(ev) /\ ev.msgs = <<Copied(ev)>> /\ Len(SplitLines(Copied(ev))) = 2
    /\ Len(ev.wr) > 0

\* C2 as stated: once a client's held-back bytes reach BUFFER_SIZE without a
\* newline, nothing is broadcast and its buffer is reset (off = 0, needle = 0).
C2_FullBufferReset ==
    \A c \in DOMAIN clients :
        (ReadStep(ev) /\ ev.id = c /\ Len(unsent[c]) = BUFFER_SIZE)
            => (ev.msgs = <<>> /\ clients[c].off = 0 /\ clients[c].needle = 0)

\* C3 as stated: while the loop runs, a client leaves the registry only in a
\* step that handles its own event and whose read met the end of the stream
\* or an error other than would-block; never while its peer is open and its
\* reads raise no error.
C3_RemovedOnlyOnCloseOrError ==
    [][\A c \in DOMAIN clients :
         (pc' = "loop" /\ c \notin DOMAIN clients') =>
            /\ ev'.op = "client" /\ ev'.id = c
            /\ \/ ev'.rin.tag = "eof"
               \/ ev'.rin.tag = "err" /\ ev'.rin.kind # "WouldBlock"]_vars

\* C4: no write of a broadcast goes to the descriptor of the client whose
\* line triggered it.
C4_NoSelfDelivery ==
    ev.op = "client" => \A i \in 1..Len(ev.wr) : ev.wr[i].fd # ev.id

\* A broadcast with two peers, written in descending order of descriptor.
C4_Witness == BroadcastStep(ev) /\ Len(ev.wr) = 2 /\ ev.wr[1].fd > ev.wr[2].fd

\* C5: a broadcast attempts exactly one write on every registered client
\* other than the sender, whatever the results of the other writes, and no
\* further write.
C5_OneWritePerPeer ==
    [][BroadcastStep(ev') =>
         /\ \A p \in DOMAIN clients \ {ev'.id} :
               Cardinality({i \in 1..Len(ev'.wr) : ev'.wr[i].fd = p}) = 1
         /\ Len(ev'.wr) = Cardinality(DOMAIN clients \ {ev'.id})]_vars

\* The first write of a broadcast failed and the next one was a short write.
C5_Witness ==
    /\ BroadcastStep(ev) /\ Len(ev.wr) = 2
    /\ ~ev.wr[1].res.ok
    /\ ev.wr[2].res.ok /\ ev.wr[2].res.n < Len(ev.msgs[1])

\* C6 as stated: a peer whose write failed during a broadcast is removed
\* from the registry and from the epoll set.
C6_FailedPeerRemoved ==
    BroadcastStep(ev) =>
        \A i \in Failed(ev) :
            ev.wr[i].fd \notin DOMAIN clients /\ ev.wr[i].fd \notin interest

\* C6 amended: a failed write during a broadcast is ignored: the failing
\* peer stays in the registry and in the epoll set, and every client other
\* than the sender keeps its state.
C6_FailedPeerKept ==
    [][(BroadcastStep(ev') /\ Failed(ev') # {}) =>
         /\ interest' = interest
         /\ \A p \in DOMAIN clients \ {ev'.id} :
               p \in DOMAIN clients' /\ clients'[p] = clients[p]]_vars

\* A write of a broadcast failed and its peer is still registered.
C6_Witness ==
    /\ BroadcastStep(ev)
    /\ \E i \in Failed(ev) : ev.wr[i].fd \in DOMAIN clients \cap interest

\* C7: a step of the loop that handles the event of one descriptor neither
\* removes any other client nor changes any other client's off, needle or
\* buf; a failed or interrupted wait removes no client while the loop goes
\* on (leaving the loop drops the registry as a whole).
C7_OthersUntouched ==
    [][pc' = "loop" =>
         \A d \in DOMAIN clients :
            d # ev'.id => d \in DOMAIN clients' /\ clients'[d] = clients[d]]_vars

\* A broadcast with a failed write, while another client holds buffered bytes.
C7_Witness ==
    /\ BroadcastStep(ev) /\ Failed(ev) # {}
    /\ \E d \in DOMAIN clients : d # ev.id /\ clients[d].off > 0

\* C8 as stated: a would-block read changes nothing; the end of the stream
\* and every other read error remove the client from the registry and from
\* the epoll set in the same step.
C8_ReadOutcomes ==
    [][ev'.op = "client" =>
         /\ (ev'.rin.tag = "err" /\ ev'.rin.kind = "WouldBlock")
               => (clients' = clients /\ interest' = interest)
         /\ (ev'.rin.tag = "eof" \/ (ev'.rin.tag = "err" /\ ev'.rin.kind # "WouldBlock"))
               => (ev'.id \notin DOMAIN clients' /\ ev'.id \notin interest')]_vars

\* C9: a read that leaves no newline among the held-back bytes broadcasts
\* nothing and keeps them in the buffer; a read that brings a newline makes
\* one broadcast: the held-back bytes, then the new bytes up to the newline.
C9_PartialLineHeld ==
    [][ReadStep(ev') =>
         LET c == ev'.id
             held == unsent[c]
             d == Copied(ev')
         IN  /\ ~HasNL(d) =>
                  /\ ev'.msgs = <<>>
                  /\ c \in DOMAIN clients' /\ Valid(clients'[c]) = held \o d
             /\ HasNL(d) => ev'.msgs = <<held \o UpToLastNL(d)>>]_vars

\* A broadcast longer than the bytes of the read that triggered it.
C9_Witness == BroadcastStep(ev) /\ Len(ev.msgs[1]) > ev.n

\* C10: after a read that broadcasts, the bytes after the last newline of
\* the valid region are the new valid region, from offset 0 and in order;
\* off = old off - old needle, needle = 0; and they are exactly the bytes
\* still to be sent, so a later broadcast holds no byte up to that newline.
C10_Compaction ==
    [][BroadcastStep(ev') =>
         LET c == ev'.id
             full == Valid(clients[c]) \o Copied(ev')
             le == LastNL(full)
         IN  /\ c \in DOMAIN clients'
             /\ clients'[c].off = Len(full) - le
             /\ clients'[c].needle = 0
             /\ Valid(clients'[c]) = SubSeq(full, le + 1, Len(full))
             /\ Valid(clients'[c]) = unsent'[c]]_vars

\* A broadcast that left bytes behind the newline.
C10_Witness == BroadcastStep(ev) /\ clients[ev.id].off > 0

\* C11: every client of the registry has 0 <= needle <= off <= BUFFER_SIZE
\* after every handled event, so that the slice buf[off..BUFFER_SIZE] of the
\* next read exists.
C11_OffsetsInRange ==
    \A c \in DOMAIN clients :
        /\ 0 <= clients[c].needle
        /\ clients[c].needle <= clients[c].off
        /\ clients[c].off <= BUFFER_SIZE
        /\ BUFFER_SIZE - clients[c].off >= 0

\* A buffer filled to BUFFER_SIZE by a read into the rest of its capacity.
C11_Witness ==
    /\ ReadStep(ev) /\ ev.id \in DOMAIN clients
    /\ ev.n < BUFFER_SIZE /\ clients[ev.id].off = BUFFER_SIZE

\* C12: an event whose identifier is neither the listener nor a key of the
\* registry changes nothing: the registry with every buffer, the epoll set
\* and the counter stay as they were, nothing is written, remove_client is
\* not called and the loop goes on.  remove_client on an identifier that is
\* no key leaves the registry as it was.
C12_StaleEventNoOp ==
    [][/\ ev'.op = "stale" =>
             /\ ev'.id # ListenFd /\ ev'.id \notin DOMAIN clients
             /\ clients' = clients /\ interest' = interest
             /\ total' = total /\ pc' = "loop"
             /\ ev'.msgs = <<>> /\ ev'.wr = <<>> /\ ev'.removed = {}
       /\ \A cfd \in ClientFds \ DOMAIN clients :
             remove_client(cfd, clients, interest).clients = clients]_vars

\* An event for a descriptor that was removed, while another client holds
\* buffered bytes.
C12_Witness ==
    /\ ev.op = "stale"
    /\ \E c \in DOMAIN clients : clients[c].off > 0

\* C13: when accept, set_nonblocking or the epoll registration of a new
\* client fails, no entry is added to the registry, the registry with every
\* buffer and the epoll set stay as they were, and the loop goes on.
C13_AcceptFailureDiscards ==
    [][ev'.op = "accept_failed" =>
         /\ ev'.err \in AcceptInputs \ {"ok"}
         /\ clients' = clients /\ interest' = interest
         /\ total' = total /\ pc' = "loop"]_vars

\* A failed epoll registration while a client holds buffered bytes.
C13_Witness ==
    /\ ev.op = "accept_failed" /\ ev.err = "epoll_ctl_err"
    /\ \E c \in DOMAIN clients : clients[c].off > 0

\* C14: a wait that fails with EINTR handles no event and changes neither
\* the registry nor the epoll set, and the loop waits again; the loop is left
\* only by a failed wait of another kind: no accept, read, write or removal
\* step leaves it.
C14_OnlyWaitFailureExits ==
    [][/\ ev'.op = "interrupted" =>
             /\ ev'.err = "Interrupted"
             /\ clients' = clients /\ interest' = interest /\ total' = total
             /\ pc' = "loop"
       /\ pc' # pc =>
             /\ pc = "loop" /\ pc' = "exited"
             /\ ev'.op = "wait_failed" /\ ev'.err # "Interrupted"]_vars

\* An interrupted wait while a client holds buffered bytes: the loop is
\* still running.
C14_Witness ==
    /\ ev.op = "interrupted" /\ pc = "loop"
    /\ \E c \in DOMAIN clients : clients[c].off > 0

\* The bytes the writes of wr were accepted for: n of an Ok(n), 0 of an Err.
RECURSIVE SumAccepted(_)
SumAccepted(wr) ==
    IF wr = <<>> THEN 0
    ELSE (IF Head(wr).res.ok THEN Head(wr).res.n ELSE 0) + SumAccepted(Tail(wr))

\* C15: the value a broadcast returns is the sum, over the single writes to
\* the peers, of the bytes each write accepted (0 for a failed write, the
\* short count for a short one); TOTAL_BYTES_SENT grows by that value in a
\* step that broadcasts, stays as it is in every other step, and never
\* decreases.
C15_BytesSentIsSum ==
    [][/\ total' >= total
       /\ BroadcastStep(ev') =>
             /\ ev'.sent = SumAccepted(ev'.wr)
             /\ \A i \in 1..Len(ev'.wr) :
                   /\ ev'.wr[i].fd # ev'.id
                   /\ ev'.wr[i].res.n <= Len(ev'.msgs[1])
             /\ total' = total + ev'.sent
       /\ ~BroadcastStep(ev') => total' = total]_vars

\* A broadcast of two bytes with one short and one complete write.
C15_Witness ==
    /\ BroadcastStep(ev) /\ Len(ev.wr) = 2 /\ Len(ev.msgs[1]) = 2
    /\ ev.wr[1].res.ok /\ ev.wr[1].res.n = 1
    /\ ev.wr[2].res.ok /\ ev.wr[2].res.n = 2
    /\ ev.sent = 3 /\ total >= 3

\* The buffer b with every byte from index n on replaced by x.
Beyond(b, n, x) == [i \in 1..BUFFER_SIZE |-> IF i <= n THEN b[i] ELSE x]

\* C16: called after n > 0 bytes were copied to buf[off..off+n],
\* check_message sets off to off + n, sets needle to one past the last
\* newline of buf[0..off+n] (0 when it has none) and returns true exactly
\* when that region holds a newline; the bytes from off + n on do not
\* change the result.
C16_FramerResult ==
    [][ReadStep(ev') =>
         \A pre \in {clients[ev'.id]} :
         \A read \in {[pre EXCEPT !.buf = copy_in(@, pre.off, ev'.rin.d, ev'.n)]} :
         \A region \in {SubSeq(read.buf, 1, pre.off + ev'.n)} :
         \A chk \in {check_message(read, ev'.n)} :
             /\ chk.client.off = pre.off + ev'.n
             /\ chk.client.needle = LastNL(region)
             /\ chk.ret = HasNL(region)
             /\ chk.client.buf = read.buf
             /\ \A x \in {0, NL} :
                   \A other \in {check_message(
                         [read EXCEPT !.buf = Beyond(@, pre.off + ev'.n, x)], ev'.n)} :
                      other.ret = chk.ret /\ other.client.needle = chk.client.needle
             /\ chk.ret = (ev'.msgs # <<>>)
             /\ ~chk.ret => clients'[ev'.id] = chk.client]_vars

\* A read that completed no line, into a buffer that holds a newline of an
\* earlier line behind the valid region.
C16_Witness ==
    /\ ReadStep(ev) /\ ev.msgs = <<>> /\ ev.id \in DOMAIN clients
    /\ \E i \in (clients[ev.id].off + 1)..BUFFER_SIZE : clients[ev.id].buf[i] = NL

\* C18: after every handled event every client of the registry has
\* needle = 0 and no newline in buf[0..off]: no complete line waits for a
\* later event.
C18_NoLinePending ==
    \A c \in DOMAIN clients :
        /\ clients[c].needle = 0
        /\ ~HasNL(Valid(clients[c]))
        /\ ~HasNL(unsent[c])

\* After a broadcast the newline of the line sent is still in the buffer,
\* behind the valid region.
C18_Witness ==
    /\ BroadcastStep(ev) /\ ev.id \in DOMAIN clients
    /\ \E i \in (clients[ev.id].off + 1)..BUFFER_SIZE : clients[ev.id].buf[i] = NL

\* C19: after every handled event the client descriptors of the epoll set
\* are the keys of the registry, the listener is in the epoll set and is no
\* key, and every entry is keyed by the descriptor of its own stream; so the
\* test *cfd != ofd of a broadcast leaves out the sender and nobody else.
C19_EpollSetIsRegistry ==
    /\ interest \ {ListenFd} = DOMAIN clients
    /\ pc = "loop" => ListenFd \in interest
    /\ ListenFd \notin DOMAIN clients
    /\ \A k \in DOMAIN clients : clients[k].stream = k
    /\ \A c \in DOMAIN clients : \A k \in DOMAIN clients :
          skip_orator(k, clients[c].stream) <=> k = c
    /\ BroadcastStep(ev) =>
          {ev.wr[i].fd : i \in 1..Len(ev.wr)} = DOMAIN clients \ {ev.id}

\* A client was removed while two others stay registered.
C19_Witness ==
    /\ ev.op = "client" /\ ev.removed # {}
    /\ Cardinality(DOMAIN clients) = 2

\* C17: for every client of the registry, the payloads it has broadcast so
\* far, put together in order, are the bytes read from it so far up to the
\* last newline read (nothing twice, out of order or left out); and every
\* payload is non-empty, ends with a newline and has at most BUFFER_SIZE
\* bytes.
C17_BroadcastsArePrefix ==
    /\ \A c \in DOMAIN clients : log[c].bc = UpToLastNL(log[c].rd)
    /\ BroadcastStep(ev) =>
          /\ Len(ev.msgs) = 1
          /\ Len(ev.msgs[1]) \in 1..BUFFER_SIZE
          /\ ev.msgs[1][Len(ev.msgs[1])] = NL

\* The second broadcast of a connection, of a byte held back by an earlier
\* read and the newline that followed; more than BUFFER_SIZE bytes sent.
C17_Witness ==
    /\ BroadcastStep(ev) /\ ev.id \in DOMAIN clients
    /\ Len(ev.msgs[1]) > ev.n
    /\ Len(log[ev.id].bc) > Len(ev.msgs[1])
    /\ Len(log[ev.id].bc) > BUFFER_SIZE

\* The last k bytes of u.
Last(u, k) == SubSeq(u, Len(u) - k + 1, Len(u))

\* C20: a connection accepted under a descriptor that a removed connection
\* used starts with off = 0 and needle = 0; its buffer and its broadcasts
\* hold bytes read from it only, whatever the earlier connection held unsent
\* when it was removed; the step that removes a connection broadcasts
\* nothing.
C20_ReusedIdStartsFresh ==
    /\ \A c \in DOMAIN clients :
          /\ log[c].rd = <<>> =>
                /\ clients[c].off = 0 /\ clients[c].needle = 0
                /\ \A i \in 1..BUFFER_SIZE : clients[c].buf[i] = 0
          /\ Valid(clients[c]) = AfterLastNL(log[c].rd)
          /\ unsent[c] = AfterLastNL(log[c].rd)
    /\ BroadcastStep(ev) =>
          /\ ev.id \in DOMAIN clients
          /\ ev.msgs[1] = Last(UpToLastNL(log[ev.id].rd), Len(ev.msgs[1]))
    /\ (ev.op = "client" /\ ev.removed # {}) =>
          /\ ev.msgs = <<>> /\ ev.wr = <<>>
          /\ ev.removed = {ev.id} /\ ev.id \notin DOMAIN clients
          /\ ~HasNL(log[ev.id].lost)

\* The first broadcast of a connection whose descriptor was used by a
\* connection that was removed with a partial line in its buffer.
C20_Witness ==
    /\ BroadcastStep(ev) /\ ev.id \in DOMAIN clients
    /\ log[ev.id].lost # <<>>
    /\ log[ev.id].bc = ev.msgs[1]
    /\ Len(ev.wr) > 0

====
